---- MODULE Spec2Model ----
(***************************************************************************)
(* PSP-37 multi-token ledger (src/data.rs, PSP37Data).                     *)
(*                                                                         *)
(* The ledger is five ink! Mappings and one scalar.  A Mapping is modelled *)
(* as a function whose DOMAIN is the set of keys that have been written;   *)
(* an Option is a set of at most one element (None = {}, Some(x) = {x}).   *)
(* Every public operation is an operator from a ledger record and its      *)
(* arguments to the returned Result and the ledger it leaves behind; the   *)
(* actions apply these operators to the current ledger.                    *)
(***************************************************************************)
EXTENDS Integers, FiniteSets, Sequences, TLC

VARIABLES token_owner, owned_serials_count, owned_tokens_count_by_account,
          operator_approvals, total_supply_by_id, total_token_count,
          call, result

vars == <<token_owner, owned_serials_count, owned_tokens_count_by_account,
          operator_approvals, total_supply_by_id, total_token_count,
          call, result>>

----------------------------------------------------------------------------
(* Bounds *)

\* Balance = u128; BalanceMAX stands for Balance::MAX (u128::MAX) at a small width.
BalanceMAX == 2

\* The accounts of the tests (ink::env::test::default_accounts).
Accounts == {"alice", "bob", "charlie"}

\* The grants of the tests: alice approves bob (approve_works_finite_amount,
\* approve_works_all_tokens).  The accounts being interchangeable and the
\* issuance ranging over every owner, one granting pair stands for any.
Delegations == {<<"alice", "bob">>}

\* The ids of the tests: Id::U8(1) is issued, Id::U8(123) never is.
IssuedIds == {1}

Ids == {1, 123}

Balances == 0..BalanceMAX

----------------------------------------------------------------------------
(* Option and Mapping *)

None == {}

Some(x) == {x}

unwrap(o) == CHOOSE x \in o : TRUE

unwrap_or_default(o) == IF o = None THEN 0 ELSE unwrap(o)

EmptyMapping == [k \in {} |-> 0]

Get(m, k) == IF k \in DOMAIN m THEN Some(m[k]) ELSE None

Insert(m, k, v) == [x \in (DOMAIN m) \cup {k} |-> IF x = k THEN v ELSE m[x]]

Remove(m, k) == [x \in (DOMAIN m) \ {k} |-> m[x]]

----------------------------------------------------------------------------
(* u128 arithmetic *)

\* A subtraction that saturates instead of reporting the underflow
checked_sub_saturating(a, b) == IF a >= b THEN Some(a - b) ELSE Some(0)

checked_sub(a, b) == IF a >= b THEN Some(a - b) ELSE None

checked_add(a, b) == IF a + b <= BalanceMAX THEN Some(a + b) ELSE None

\* The operands of the subtraction swapped
saturating_sub_swapped(a, b) == IF b >= a THEN b - a ELSE 0

saturating_sub(a, b) == IF a >= b THEN a - b ELSE 0

----------------------------------------------------------------------------
(* Results and events *)

Ok(events) == [kind |-> "Ok", err |-> "", events |-> events]

Err(e) == [kind |-> "Err", err |-> e, events |-> <<>>]

\* Option::unwrap on None: the call aborts instead of returning.
Panic == [kind |-> "Panic", err |-> "", events |-> <<>>]

TransferEvent(from, to, id, value) ==
    [type |-> "Transfer", from |-> from, to |-> to, id |-> id, value |-> value]

ApprovalEvent(owner, operator, id, value) ==
    [type |-> "Approval", owner |-> owner, operator |-> operator, id |-> id, value |-> value]

----------------------------------------------------------------------------
(* The ledger *)


\* PSP37Data::new(): every mapping empty, the counter zero
NewLedger ==
    [token_owner |-> EmptyMapping,
     owned_serials_count |-> EmptyMapping,
     owned_tokens_count_by_account |-> EmptyMapping,
     operator_approvals |-> EmptyMapping,
     total_supply_by_id |-> EmptyMapping,
     total_token_count |-> 0]

Ledger ==
    [token_owner |-> token_owner,
     owned_serials_count |-> owned_serials_count,
     owned_tokens_count_by_account |-> owned_tokens_count_by_account,
     operator_approvals |-> operator_approvals,
     total_supply_by_id |-> total_supply_by_id,
     total_token_count |-> total_token_count]

Return(res, S) == [res |-> res, st |-> S]

\* Queries
owner_of(S, id) == Get(S.token_owner, id)

balance_by_id(S, owner, id) == unwrap_or_default(Get(S.owned_serials_count, <<owner, id>>))

balance_by_account(S, owner) == unwrap_or_default(Get(S.owned_tokens_count_by_account, owner))

balance_of(S, owner, id) ==
    IF id = None
    THEN unwrap_or_default(Get(S.owned_tokens_count_by_account, owner))
    ELSE unwrap_or_default(Get(S.owned_serials_count, <<owner, unwrap(id)>>))

total_supply(S, id) ==
    IF id = None
    THEN S.total_token_count
    ELSE unwrap_or_default(Get(S.total_supply_by_id, unwrap(id)))


\* The blanket approval read when the exact key is absent
allowance_effective(S, owner, operator, id) ==
    IF <<owner, operator, id>> \in DOMAIN S.operator_approvals
    THEN S.operator_approvals[<<owner, operator, id>>]
    ELSE unwrap_or_default(Get(S.operator_approvals, <<owner, operator, None>>))

allowance(S, owner, operator, id) ==
    unwrap_or_default(Get(S.operator_approvals, <<owner, operator, id>>))

\* The allowance resolved for a delegated transfer
Infinite == [tag |-> "Infinite", value |-> 0]

Finite(x) == [tag |-> "Finite", value |-> x]

NoAllowance == [tag |-> "None", value |-> 0]

\* An absent per-id entry read through its default, as allowance() reads it
allowance_value_wrapped_default(S, owner, operator, id) ==
    Finite(allowance(S, owner, operator, Some(id)))

\* The blanket approval looked up before the per-id entry
allowance_value_wrapped_blanket_first(S, owner, operator, id) ==
    LET finite == Get(S.operator_approvals, <<owner, operator, Some(id)>>)
        blanket == Get(S.operator_approvals, <<owner, operator, None>>)
    IN  IF blanket # None THEN Infinite
        ELSE IF finite # None THEN Finite(unwrap(finite))
        ELSE NoAllowance

allowance_value_wrapped(S, owner, operator, id) ==
    LET finite == Get(S.operator_approvals, <<owner, operator, Some(id)>>)
        blanket == Get(S.operator_approvals, <<owner, operator, None>>)
    IN  IF finite # None THEN Finite(unwrap(finite))
        ELSE IF blanket # None THEN Infinite
        ELSE NoAllowance


\* The supplied value stored for a blanket approval too
approve_as_given(S, owner, operator, id, value) ==
    IF owner = operator
    THEN Return(Ok(<<>>), S)
    ELSE Return(Ok(<<ApprovalEvent(owner, operator, id, value)>>),
                [S EXCEPT !.operator_approvals = Insert(@, <<owner, operator, id>>, value)])

\* The value added to the allowance already stored
approve_additive(S, owner, operator, id, value) ==
    IF owner = operator
    THEN Return(Ok(<<>>), S)
    ELSE LET allowance_value ==
                 IF id = None THEN BalanceMAX ELSE allowance(S, owner, operator, id) + value
         IN  Return(Ok(<<ApprovalEvent(owner, operator, id, allowance_value)>>),
                    [S EXCEPT !.operator_approvals =
                         Insert(@, <<owner, operator, id>>, allowance_value)])

\* The test for a self-approval left out
approve_self_allowed(S, owner, operator, id, value) ==
    LET allowance_value == IF id = None THEN BalanceMAX ELSE value
    IN  Return(Ok(<<ApprovalEvent(owner, operator, id, allowance_value)>>),
               [S EXCEPT !.operator_approvals =
                    Insert(@, <<owner, operator, id>>, allowance_value)])

approve(S, owner, operator, id, value) ==
    IF owner = operator
    THEN Return(Ok(<<>>), S)
    ELSE LET allowance_value == IF id = None THEN BalanceMAX ELSE value
             S1 == [S EXCEPT !.operator_approvals =
                        Insert(@, <<owner, operator, id>>, allowance_value)]
         IN  Return(Ok(<<ApprovalEvent(owner, operator, id, allowance_value)>>), S1)

\* The new source balance computed but not persisted
WriteSourceBalance_dropped(S, owner, id, balance_after) == S

\* The ownership record removed and not inserted again
MoveOwnership_removed(S, id, to) ==
    [S EXCEPT !.token_owner = Remove(@, id)]

\* The writes shared by transfer_internal and transfer_from
WriteSourceBalance(S, owner, id, balance_after) ==
    [S EXCEPT !.owned_serials_count = Insert(@, <<owner, id>>, balance_after)]

WriteSourceTokenCount(S, owner, from_token_balance, balance_after) ==
    IF balance_after = 0
    THEN [S EXCEPT !.owned_tokens_count_by_account =
              Insert(@, owner, saturating_sub(from_token_balance, 1))]
    ELSE S

\* The ownership record left with the former owner
MoveOwnership_kept(S, id, to) == S

MoveOwnership(S, id, to) ==
    [S EXCEPT !.token_owner = Insert(Remove(@, id), id, to)]


\* The destination credited with the transferred value
CreditDestination_by_value(S, caller, to, id, value) ==
    LET to_balance == balance_of(S, to, Some(id))
        credited == checked_add(to_balance, value)
    IN  IF credited = None
        THEN Return(Panic, S)
        ELSE Return(Ok(<<TransferEvent(Some(caller), Some(to), id, value)>>),
                    [S EXCEPT !.owned_serials_count =
                         Insert(@, <<to, id>>, unwrap(credited))])

\* The event returned without the destination being credited
CreditDestination_skipped(S, caller, to, id, value) ==
    Return(Ok(<<TransferEvent(Some(caller), Some(to), id, value)>>), S)

\* to_balance.checked_add(1).unwrap(), written to (to, id); aborts on overflow
CreditDestination(S, caller, to, id, value) ==
    LET to_balance == balance_of(S, to, Some(id))
        credited == checked_add(to_balance, 1)
    IN  IF credited = None
        THEN Return(Panic, S)
        ELSE Return(Ok(<<TransferEvent(Some(caller), Some(to), id, value)>>),
                    [S EXCEPT !.owned_serials_count =
                         Insert(@, <<to, id>>, unwrap(credited))])

\* The zero-value case of the no-op test left out
IsNoOp_same_target(owner, to, value) == owner = to

\* owner == to || value == 0
IsNoOp(owner, to, value) == owner = to \/ value = 0

transfer_internal(S, caller, to, id, value) ==
    IF owner_of(S, id) = None
    THEN Return(Err("TokenNotExists"), S)
    ELSE LET owner == unwrap(owner_of(S, id)) IN
         IF IsNoOp(owner, to, value)
         THEN Return(Ok(<<>>), S)
         ELSE IF owner # caller
         THEN Return(Err("NotApproved"), S)
         ELSE LET from_balance == balance_by_id(S, owner, id)
                  from_token_balance == balance_by_account(S, owner)
                  balance_after == checked_sub(from_balance, value)
              IN  IF balance_after = None
                  THEN Return(Err("InsufficientBalance"), S)
                  ELSE LET S1 == WriteSourceBalance(S, owner, id, unwrap(balance_after))
                           S2 == WriteSourceTokenCount(S1, owner, from_token_balance,
                                                       unwrap(balance_after))
                           S3 == MoveOwnership(S2, id, to)
                       IN  CreditDestination(S3, caller, to, id, value)

\* A blanket approval debited into the per-id entry as a finite one is
handle_transfer_allowance_internal_debits_blanket(S, owner, caller, id, value) ==
    LET allowance_balance_wrapped == allowance_value_wrapped(S, owner, caller, id)
        allowance_balance ==
            IF allowance_balance_wrapped.tag = "Infinite"
            THEN BalanceMAX ELSE allowance_balance_wrapped.value
    IN  IF allowance_balance_wrapped.tag \in {"Finite", "Infinite"}
        THEN IF owner # caller /\ allowance_balance < value
             THEN Return(Err("NotApproved"), S)
             ELSE IF owner # caller
             THEN Return(Ok(<<>>),
                         [S EXCEPT !.operator_approvals =
                              Insert(@, <<owner, caller, Some(id)>>,
                                     saturating_sub(allowance_balance, value))])
             ELSE Return(Ok(<<>>), S)
        ELSE Return(Ok(<<>>), S)

\* A call without any allowance rejected, the owner's own call included
handle_transfer_allowance_internal_requires_allowance(S, owner, caller, id, value) ==
    LET allowance_balance_wrapped == allowance_value_wrapped(S, owner, caller, id)
        allowance_balance == allowance_balance_wrapped.value
    IN  IF allowance_balance_wrapped.tag = "None"
        THEN Return(Err("NotApproved"), S)
        ELSE IF allowance_balance_wrapped.tag = "Finite"
        THEN IF owner # caller /\ allowance_balance < value
             THEN Return(Err("NotApproved"), S)
             ELSE IF owner # caller
             THEN Return(Ok(<<>>),
                         [S EXCEPT !.operator_approvals =
                              Insert(@, <<owner, caller, Some(id)>>,
                                     saturating_sub(allowance_balance, value))])
             ELSE Return(Ok(<<>>), S)
        ELSE Return(Ok(<<>>), S)

handle_transfer_allowance_internal(S, owner, caller, id, value) ==
    LET allowance_balance_wrapped == allowance_value_wrapped(S, owner, caller, id)
        allowance_balance == allowance_balance_wrapped.value
    IN  IF allowance_balance_wrapped.tag = "Finite"
        THEN IF owner # caller /\ allowance_balance < value
             THEN Return(Err("NotApproved"), S)
             ELSE IF owner # caller
             THEN Return(Ok(<<>>),
                         [S EXCEPT !.operator_approvals =
                              Insert(@, <<owner, caller, Some(id)>>,
                                     saturating_sub(allowance_balance, value))])
             ELSE Return(Ok(<<>>), S)
        ELSE Return(Ok(<<>>), S)

\* The value taken from the caller's balance slot, not the recorded owner's
transfer_from_debits_caller(S, caller, to, id, value) ==
    IF owner_of(S, id) = None
    THEN Return(Err("TokenNotExists"), S)
    ELSE LET owner == unwrap(owner_of(S, id)) IN
         IF IsNoOp(owner, to, value)
         THEN Return(Ok(<<>>), S)
         ELSE LET from_balance == balance_by_id(S, caller, id)
                  from_token_balance == balance_by_account(S, caller)
                  balance_after == checked_sub(from_balance, value)
              IN  IF balance_after = None
                  THEN Return(Err("InsufficientBalance"), S)
                  ELSE LET S1 == WriteSourceBalance(S, caller, id, unwrap(balance_after))
                           S2 == WriteSourceTokenCount(S1, caller, from_token_balance,
                                                       unwrap(balance_after))
                           allowed == handle_transfer_allowance_internal(S2, owner, caller,
                                                                         id, value)
                       IN  IF allowed.res.kind = "Err"
                           THEN allowed
                           ELSE CreditDestination(MoveOwnership(allowed.st, id, to),
                                                  caller, to, id, value)

transfer_from(S, caller, to, id, value) ==
    IF owner_of(S, id) = None
    THEN Return(Err("TokenNotExists"), S)
    ELSE LET owner == unwrap(owner_of(S, id)) IN
         IF IsNoOp(owner, to, value)
         THEN Return(Ok(<<>>), S)
         ELSE LET from_balance == balance_by_id(S, owner, id)
                  from_token_balance == balance_by_account(S, owner)
                  balance_after == checked_sub(from_balance, value)
              IN  IF balance_after = None
                  THEN Return(Err("InsufficientBalance"), S)
                  ELSE LET S1 == WriteSourceBalance(S, owner, id, unwrap(balance_after))
                           S2 == WriteSourceTokenCount(S1, owner, from_token_balance,
                                                       unwrap(balance_after))
                           allowed == handle_transfer_allowance_internal(S2, owner, caller,
                                                                         id, value)
                       IN  IF allowed.res.kind = "Err"
                           THEN allowed
                           ELSE CreditDestination(MoveOwnership(allowed.st, id, to),
                                                  caller, to, id, value)

\* transfer routed through the delegated path
transfer_delegated(S, caller, to, id, value) == transfer_from(S, caller, to, id, value)

transfer(S, caller, to, id, value) == transfer_internal(S, caller, to, id, value)

----------------------------------------------------------------------------
(* The state machine *)

\* An issuance as the tests of src/data.rs set it up: every issued id has one
\* owner holding its whole supply, the owner's token-type count is the number
\* of ids issued to it, and no allowance has been granted yet.
IssuedTo(owners, a) == {i \in DOMAIN owners : owners[i] = a}

Issuance(owners, supply) ==
    /\ token_owner = owners
    /\ owned_serials_count =
           [k \in {<<owners[i], i>> : i \in DOMAIN owners} |-> supply[k[2]]]
    /\ owned_tokens_count_by_account =
           [a \in {owners[i] : i \in DOMAIN owners} |-> Cardinality(IssuedTo(owners, a))]
    /\ operator_approvals = EmptyMapping
    /\ total_supply_by_id = [i \in DOMAIN owners |-> supply[i]]
    /\ total_token_count = Cardinality(DOMAIN owners)

NoCall == [op |-> "new", caller |-> "", owner |-> None]

Init ==
    /\ \E issued \in SUBSET IssuedIds :
          \E owners \in [issued -> Accounts] :
             \E supply \in [issued -> 1..BalanceMAX] :
                Issuance(owners, supply)
    /\ call = NoCall
    /\ result = Ok(<<>>)

\* An operation runs to completion as one step: the ledger becomes the one the
\* operation leaves behind and its Result is recorded, with the operation's
\* name, the account that made the call and the owner the call resolved.
Commit(op, caller, owner, r) ==
    /\ token_owner' = r.st.token_owner
    /\ owned_serials_count' = r.st.owned_serials_count
    /\ owned_tokens_count_by_account' = r.st.owned_tokens_count_by_account
    /\ operator_approvals' = r.st.operator_approvals
    /\ total_supply_by_id' = r.st.total_supply_by_id
    /\ total_token_count' = r.st.total_token_count
    /\ call' = [op |-> op, caller |-> caller, owner |-> owner]
    /\ result' = r.res

Approve(owner, operator, id, value) ==
    /\ \/ owner = operator
       \/ <<owner, operator>> \in Delegations
    /\ Commit("approve", owner, Some(owner), approve(Ledger, owner, operator, id, value))

Transfer(caller, to, id, value) ==
    /\ value \in Balances
    /\ Commit("transfer", caller, owner_of(Ledger, id),
              transfer(Ledger, caller, to, id, value))

TransferFrom(caller, to, id, value) ==
    /\ value \in Balances
    /\ Commit("transfer_from", caller, owner_of(Ledger, id),
              transfer_from(Ledger, caller, to, id, value))

\* Allowances are granted for all ids (None) or for an issued id.
ApprovableIds == {None} \cup {Some(i) : i \in IssuedIds}

Next ==
    \/ \E owner \in Accounts, operator \in Accounts, id \in ApprovableIds, value \in Balances :
          Approve(owner, operator, id, value)
    \/ \E caller \in Accounts, to \in Accounts, id \in Ids, value \in Balances :
          Transfer(caller, to, id, value)
    \/ \E caller \in Accounts, to \in Accounts, id \in Ids, value \in Balances :
          TransferFrom(caller, to, id, value)

Spec == Init /\ [][Next]_vars

\* The same ledger started from any issuance of per-id balances 0..Balance::MAX:
\* an issued id may be recorded with an owner that holds none of it.
InitAnySupply ==
    /\ \E issued \in SUBSET IssuedIds :
          \E owners \in [issued -> Accounts] :
             \E supply \in [issued -> Balances] :
                Issuance(owners, supply)
    /\ call = NoCall
    /\ result = Ok(<<>>)

SpecAnySupply == InitAnySupply /\ [][Next]_vars


----------------------------------------------------------------------------
(* The entry-point contract (src/lib.rs, impl PSP37 for Token) *)

\* Each message hands the ledger an acting account and its arguments; sender
\* is self.env().caller(), the account the host authenticated.
Token_approve(S, sender, operator, id, value) ==
    approve(S, sender, operator, id, value)

Token_transfer(S, sender, to, id, value) ==
    transfer(S, sender, to, id, value)

Token_transfer_from(S, sender, from, to, id, value) ==
    transfer_from(S, from, to, id, value)

\* A message runs to completion as one step.  When it returns Err the host
\* either keeps the ledger as the operation left it or discards its writes.
TokenCommit(op, sender, caller, owner, r) ==
    \E st \in (IF r.res.kind = "Err" THEN {r.st, Ledger} ELSE {r.st}) :
       /\ token_owner' = st.token_owner
       /\ owned_serials_count' = st.owned_serials_count
       /\ owned_tokens_count_by_account' = st.owned_tokens_count_by_account
       /\ operator_approvals' = st.operator_approvals
       /\ total_supply_by_id' = st.total_supply_by_id
       /\ total_token_count' = st.total_token_count
       /\ call' = [op |-> op, caller |-> caller, owner |-> owner, sender |-> sender]
       /\ result' = r.res

TokenApprove(sender, operator, id, value) ==
    /\ \/ sender = operator
       \/ <<sender, operator>> \in Delegations
    /\ TokenCommit("approve", sender, sender, Some(sender),
                   Token_approve(Ledger, sender, operator, id, value))

TokenTransfer(sender, to, id, value) ==
    /\ value \in Balances
    /\ TokenCommit("transfer", sender, sender, owner_of(Ledger, id),
                   Token_transfer(Ledger, sender, to, id, value))

TokenTransferFrom(sender, from, to, id, value) ==
    /\ value \in Balances
    /\ TokenCommit("transfer_from", sender, from, owner_of(Ledger, id),
                   Token_transfer_from(Ledger, sender, from, to, id, value))

TokenNext ==
    \/ \E sender \in Accounts, operator \in Accounts, id \in ApprovableIds, value \in Balances :
          TokenApprove(sender, operator, id, value)
    \/ \E sender \in Accounts, to \in Accounts, id \in Ids, value \in Balances :
          TokenTransfer(sender, to, id, value)
    \/ \E sender \in Accounts, from \in Accounts, to \in Accounts, id \in Ids, value \in Balances :
          TokenTransferFrom(sender, from, to, id, value)

SpecToken == Init /\ [][TokenNext]_vars

TypeOK ==
    /\ DOMAIN token_owner \subseteq Ids
    /\ \A i \in DOMAIN token_owner : token_owner[i] \in Accounts
    /\ \A k \in DOMAIN owned_serials_count : owned_serials_count[k] \in Balances
    /\ \A a \in DOMAIN owned_tokens_count_by_account :
          owned_tokens_count_by_account[a] \in Balances
    /\ \A k \in DOMAIN operator_approvals : operator_approvals[k] \in Balances
    /\ total_token_count \in 0..Cardinality(Ids)

----------------------------------------------------------------------------
(* Properties *)

\* The Result recorded by the last step is Ok with exactly one Transfer event.
Transferred ==
    /\ result.kind = "Ok"
    /\ Len(result.events) = 1
    /\ result.events[1].type = "Transfer"

\* C1: for every owner, to, id and value with owner_of(id) = owner, caller =
\* owner, to # owner, value > 0 and balance_of(owner, id) >= value, transfer
\* succeeds with exactly one Transfer event {from: Some(owner), to: Some(to),
\* id, value}, lowers balance_of(owner, id) by value and makes to the owner.
C1_TransferByOwner ==
    \A owner \in Accounts, to \in Accounts, id \in Ids, value \in Balances :
       (/\ owner_of(Ledger, id) = Some(owner)
        /\ to # owner
        /\ value > 0
        /\ balance_of(Ledger, owner, Some(id)) >= value)
       => LET r == transfer(Ledger, owner, to, id, value)
          IN  /\ r.res = Ok(<<TransferEvent(Some(owner), Some(to), id, value)>>)
              /\ balance_of(r.st, owner, Some(id))
                   = balance_of(Ledger, owner, Some(id)) - value
              /\ owner_of(r.st, id) = Some(to)

\* A transfer by the owner has moved an id and left the former owner a remainder.
C1_Witness ==
    /\ call.op = "transfer"
    /\ Transferred
    /\ call.owner = Some(call.caller)
    /\ result.events[1].from = Some(call.caller)
    /\ result.events[1].value > 0
    /\ owner_of(Ledger, result.events[1].id) = result.events[1].to
    /\ result.events[1].to # Some(call.caller)
    /\ balance_of(Ledger, call.caller, Some(result.events[1].id)) > 0

\* The five mappings and the scalar counter are left as they were.
LedgerUnchanged ==
    UNCHANGED <<token_owner, owned_serials_count, owned_tokens_count_by_account,
                operator_approvals, total_supply_by_id, total_token_count>>

\* C2: whenever transfer_from returns an error, every mapping and the scalar
\* counter are exactly as before the call.
C2_TransferFromErrorLeavesState ==
    [][(call'.op = "transfer_from" /\ result'.kind = "Err") => LedgerUnchanged]_vars

\* C3: whenever transfer returns an error, which is TokenNotExists for an id
\* absent from token_owner, InsufficientBalance for the owner moving more than
\* its per-id balance, or NotApproved, the whole ledger is as before the call.
C3_TransferErrorLeavesState ==
    \A caller \in Accounts, to \in Accounts, id \in Ids, value \in Balances :
       LET r == transfer(Ledger, caller, to, id, value)
       IN  /\ r.res.kind = "Err" =>
                /\ r.st = Ledger
                /\ r.res.err \in {"TokenNotExists", "NotApproved", "InsufficientBalance"}
           /\ owner_of(Ledger, id) = None => r.res = Err("TokenNotExists")
           /\ (/\ owner_of(Ledger, id) = Some(caller)
               /\ to # caller
               /\ value > balance_of(Ledger, caller, Some(id)))
              => r.res = Err("InsufficientBalance")

\* The owner's transfer of more than it holds has failed.
C3_Witness ==
    /\ call.op = "transfer"
    /\ result = Err("InsufficientBalance")
    /\ call.owner = Some(call.caller)
    /\ \E id \in Ids :
          /\ owner_of(Ledger, id) = Some(call.caller)
          /\ balance_of(Ledger, call.caller, Some(id)) > 0

\* C4: for every id present in token_owner, the recorded owner's per-id
\* balance is greater than zero and every other account's is zero.
C4_OneHolderPerId ==
    \A id \in DOMAIN token_owner :
       /\ balance_of(Ledger, token_owner[id], Some(id)) > 0
       /\ \A other \in Accounts \ {token_owner[id]} :
             balance_of(Ledger, other, Some(id)) = 0

\* C5: for every account a, balance_of(a, None) is the number of token ids of
\* which a's per-id balance is nonzero.
C5_TokenTypeCount ==
    \A a \in Accounts :
       balance_of(Ledger, a, None)
         = Cardinality({id \in Ids : balance_of(Ledger, a, Some(id)) # 0})

\* C6: for transfer and transfer_from, if the id has an owner and to is that
\* owner or value is 0, the call returns Ok with no event and leaves the whole
\* state unchanged, for every caller and whatever the balances are.
C6_NoOp ==
    \A caller \in Accounts, to \in Accounts, id \in Ids, value \in Balances :
       (/\ owner_of(Ledger, id) # None
        /\ (Some(to) = owner_of(Ledger, id) \/ value = 0))
       => /\ transfer(Ledger, caller, to, id, value) = Return(Ok(<<>>), Ledger)
          /\ transfer_from(Ledger, caller, to, id, value) = Return(Ok(<<>>), Ledger)

\* A caller that is not the owner and holds no allowance has made a no-op call
\* on an issued id.
C6_Witness ==
    /\ call.op \in {"transfer", "transfer_from"}
    /\ result = Ok(<<>>)
    /\ call.owner # None
    /\ call.owner # Some(call.caller)
    /\ \A k \in DOMAIN operator_approvals : k[2] # call.caller

\* C7: for an existing id with to # owner and value > 0, a transfer whose
\* caller is not the current owner fails with NotApproved, whatever allowance
\* the owner has granted to that caller.
C7_TransferOwnerOnly ==
    \A caller \in Accounts, to \in Accounts, id \in Ids, value \in Balances :
       (/\ owner_of(Ledger, id) # None
        /\ Some(to) # owner_of(Ledger, id)
        /\ value > 0
        /\ Some(caller) # owner_of(Ledger, id))
       => transfer(Ledger, caller, to, id, value) = Return(Err("NotApproved"), Ledger)

\* A caller holding a blanket approval of the owner has been refused by transfer.
C7_Witness ==
    /\ call.op = "transfer"
    /\ result = Err("NotApproved")
    /\ call.owner # None
    /\ <<unwrap(call.owner), call.caller, None>> \in DOMAIN operator_approvals
    /\ \E id \in Ids :
          /\ owner_of(Ledger, id) = call.owner
          /\ balance_of(Ledger, unwrap(call.owner), Some(id)) > 0

\* C8: for transfer_from on an existing id with caller # owner, to # owner,
\* value > 0 and sufficient source balance, when a finite allowance a is stored
\* at (owner, caller, Some(id)): if a < value the call fails with NotApproved;
\* if a >= value it succeeds and the stored allowance becomes a - value.
C8_FiniteAllowance ==
    \A caller \in Accounts, to \in Accounts, id \in Ids, value \in Balances :
       \A owner \in Accounts \ {caller, to} :
          (/\ owner_of(Ledger, id) = Some(owner)
           /\ value > 0
           /\ balance_of(Ledger, owner, Some(id)) >= value
           /\ <<owner, caller, Some(id)>> \in DOMAIN operator_approvals)
          => LET a == operator_approvals[<<owner, caller, Some(id)>>]
                 r == transfer_from(Ledger, caller, to, id, value)
             IN  /\ a < value => r.res = Err("NotApproved")
                 /\ a >= value =>
                      /\ r.res = Ok(<<TransferEvent(Some(caller), Some(to), id, value)>>)
                      /\ LET after == r.st.operator_approvals[<<owner, caller, Some(id)>>]
                         IN  after = a - value /\ after >= 0 /\ after <= a

\* A delegate has moved an id of another owner on a finite allowance, part of
\* which is left.
C8_Witness ==
    /\ call.op = "transfer_from"
    /\ Transferred
    /\ call.owner # None
    /\ call.owner # Some(call.caller)
    /\ <<unwrap(call.owner), call.caller, Some(result.events[1].id)>>
          \in DOMAIN operator_approvals
    /\ operator_approvals[<<unwrap(call.owner), call.caller,
                            Some(result.events[1].id)>>] > 0

\* C9: for an existing id, when caller # owner and neither (owner, caller,
\* Some(id)) nor (owner, caller, None) has been written, transfer_from with
\* to # owner, 0 < value <= the owner's per-id balance succeeds, makes to the
\* owner and returns one Transfer event, leaving the ledger the owner's own
\* transfer would leave.
C9_NoAllowanceNotRejected ==
    \A caller \in Accounts, to \in Accounts, id \in Ids, value \in Balances :
       \A owner \in Accounts \ {caller, to} :
          (/\ owner_of(Ledger, id) = Some(owner)
           /\ <<owner, caller, Some(id)>> \notin DOMAIN operator_approvals
           /\ <<owner, caller, None>> \notin DOMAIN operator_approvals
           /\ value > 0
           /\ value <= balance_of(Ledger, owner, Some(id)))
          => LET r == transfer_from(Ledger, caller, to, id, value)
             IN  /\ r.res = Ok(<<TransferEvent(Some(caller), Some(to), id, value)>>)
                 /\ owner_of(r.st, id) = Some(to)
                 /\ r.st = transfer(Ledger, owner, to, id, value).st

\* A caller that is not the owner has moved an id while no allowance was ever
\* granted to anyone.
C9_Witness ==
    /\ call.op = "transfer_from"
    /\ Transferred
    /\ call.owner # None
    /\ call.owner # Some(call.caller)
    /\ operator_approvals = EmptyMapping
    /\ owner_of(Ledger, result.events[1].id) = result.events[1].to

Errors == {"TokenNotExists", "NotApproved", "InsufficientBalance"}

Returned(res) == res.kind = "Ok" \/ (res.kind = "Err" /\ res.err \in Errors)

\* C10: no call to approve, transfer or transfer_from aborts: in every state
\* reachable from any issuance (any owner, per-id balance 0..Balance::MAX) and
\* for every argument the call returns Ok or one of
\* TokenNotExists, NotApproved, InsufficientBalance; the increment of the
\* destination balance never overflows.
C10_NoPanic ==
    /\ Returned(result)
    /\ \A caller \in Accounts, to \in Accounts, id \in Ids, value \in Balances :
          /\ Returned(transfer(Ledger, caller, to, id, value).res)
          /\ Returned(transfer_from(Ledger, caller, to, id, value).res)
    /\ \A owner \in Accounts, operator \in Accounts, id \in ApprovableIds, value \in Balances :
          approve(Ledger, owner, operator, id, value).res.kind = "Ok"

\* A transfer has raised its destination's balance to Balance::MAX.
C10_Witness ==
    /\ call.op \in {"transfer", "transfer_from"}
    /\ Transferred
    /\ balance_of(Ledger, unwrap(result.events[1].to), Some(result.events[1].id))
          = BalanceMAX

\* The Result recorded by the last step is Ok with exactly one Approval event.
Approved ==
    /\ result.kind = "Ok"
    /\ Len(result.events) = 1
    /\ result.events[1].type = "Approval"

OptionalIds == {None} \cup {Some(i) : i \in Ids}

\* C11: approve(owner, operator, None, v) with owner # operator stores
\* Balance::MAX at (owner, operator, None) whatever v is and returns one
\* Approval event whose value is Balance::MAX; and in every reachable state
\* every entry keyed with id = None equals Balance::MAX.
C11_BlanketIsSentinel ==
    /\ \A owner \in Accounts, v \in Balances : \A operator \in Accounts \ {owner} :
          LET r == approve(Ledger, owner, operator, None, v)
          IN  /\ Get(r.st.operator_approvals, <<owner, operator, None>>) = Some(BalanceMAX)
              /\ r.res = Ok(<<ApprovalEvent(owner, operator, None, BalanceMAX)>>)
    /\ \A k \in DOMAIN operator_approvals :
          k[3] = None => operator_approvals[k] = BalanceMAX

\* A blanket approval has been granted and reported with the sentinel.
C11_Witness ==
    /\ call.op = "approve"
    /\ Approved
    /\ result.events[1].id = None
    /\ result.events[1].value = BalanceMAX
    /\ Get(operator_approvals,
           <<result.events[1].owner, result.events[1].operator, None>>) = Some(BalanceMAX)

\* C12: approve(owner, operator, Some(id), value) with owner # operator sets
\* the allowance at exactly (owner, operator, Some(id)) to value, replacing any
\* previous value, returns exactly one Approval event {owner, operator,
\* Some(id), value}, and changes no other allowance key nor token_owner,
\* balances, token-type counts and supplies.
C12_ApproveFinite ==
    \A owner \in Accounts, id \in Ids, value \in Balances : \A operator \in Accounts \ {owner} :
       LET key == <<owner, operator, Some(id)>>
           r == approve(Ledger, owner, operator, Some(id), value)
       IN  /\ r.res = Ok(<<ApprovalEvent(owner, operator, Some(id), value)>>)
           /\ Get(r.st.operator_approvals, key) = Some(value)
           /\ DOMAIN r.st.operator_approvals = DOMAIN operator_approvals \cup {key}
           /\ \A k \in DOMAIN operator_approvals \ {key} :
                 r.st.operator_approvals[k] = operator_approvals[k]
           /\ r.st.token_owner = token_owner
           /\ r.st.owned_serials_count = owned_serials_count
           /\ r.st.owned_tokens_count_by_account = owned_tokens_count_by_account
           /\ r.st.total_supply_by_id = total_supply_by_id
           /\ r.st.total_token_count = total_token_count

\* A per-id allowance has been granted to an operator that also holds the
\* owner's blanket approval.
C12_Witness ==
    /\ call.op = "approve"
    /\ Approved
    /\ result.events[1].id # None
    /\ LET e == result.events[1]
       IN  /\ e.value > 0
           /\ Get(operator_approvals, <<e.owner, e.operator, e.id>>) = Some(e.value)
           /\ <<e.owner, e.operator, None>> \in DOMAIN operator_approvals

\* C13: approve(owner, owner, id, value) is a no-op for every id and value: it
\* returns Ok with no event and leaves the whole state unchanged; no key of
\* the form (a, a, _) is ever present in operator_approvals.
C13_SelfApprovalNoOp ==
    /\ \A a \in Accounts, id \in OptionalIds, value \in Balances :
          approve(Ledger, a, a, id, value) = Return(Ok(<<>>), Ledger)
    /\ \A k \in DOMAIN operator_approvals : k[1] # k[2]

\* A self-approval has returned without an event.
C13_Witness ==
    /\ call.op = "approve"
    /\ result = Ok(<<>>)
    /\ call.owner = Some(call.caller)
    /\ \A k \in DOMAIN operator_approvals : k[1] # k[2]

\* C14: for approve, transfer and transfer_from as the entry-point contract
\* exposes them, the account handed to the ledger as the acting caller is the
\* host-authenticated caller of the message.
C14_CallerIsAuthenticated ==
    call.op \in {"approve", "transfer", "transfer_from"} => call.caller = call.sender

\* C15: a key never written resolves to its default: in a freshly created
\* ledger, and for any key untouched since creation, allowance = 0,
\* balance_of(owner, Some(id)) = 0, balance_of(owner, None) = 0,
\* total_supply = 0 and owner_of(id) is absent; an id that was never issued
\* stays untouched by every operation.
C15_QueryDefaults ==
    /\ \A a \in Accounts, b \in Accounts, id \in OptionalIds :
          /\ allowance(NewLedger, a, b, id) = 0
          /\ balance_of(NewLedger, a, id) = 0
          /\ total_supply(NewLedger, id) = 0
    /\ \A i \in Ids : owner_of(NewLedger, i) = None
    /\ \A a \in Accounts, b \in Accounts, id \in OptionalIds :
          <<a, b, id>> \notin DOMAIN operator_approvals => allowance(Ledger, a, b, id) = 0
    /\ \A a \in Accounts :
          /\ a \notin DOMAIN owned_tokens_count_by_account => balance_of(Ledger, a, None) = 0
          /\ \A i \in Ids :
                <<a, i>> \notin DOMAIN owned_serials_count => balance_of(Ledger, a, Some(i)) = 0
    /\ \A i \in Ids :
          /\ i \notin DOMAIN total_supply_by_id => total_supply(Ledger, Some(i)) = 0
          /\ i \notin DOMAIN token_owner => owner_of(Ledger, i) = None
    /\ \A i \in Ids \ IssuedIds :
          /\ owner_of(Ledger, i) = None
          /\ total_supply(Ledger, Some(i)) = 0
          /\ \A a \in Accounts :
                /\ balance_of(Ledger, a, Some(i)) = 0
                /\ <<a, i>> \notin DOMAIN owned_serials_count

\* After a blanket approval was granted and a call on an id that was never
\* issued was refused, the per-id allowance key is still unwritten.
C15_Witness ==
    /\ call.op \in {"transfer", "transfer_from"}
    /\ result = Err("TokenNotExists")
    /\ token_owner # EmptyMapping
    /\ \E k \in DOMAIN operator_approvals :
          /\ k[3] = None
          /\ \A i \in Ids : <<k[1], k[2], Some(i)>> \notin DOMAIN operator_approvals

\* The call computed on the current ledger moves the id: it returns Ok with an event.
Moves(r) == r.res.kind = "Ok" /\ r.res.events # <<>>

\* C16: after every successful state-changing transfer or transfer_from, the
\* destination's per-id balance is its previous value plus exactly 1, whatever
\* value is, and the source's per-id balance is its previous value minus value.
C16_BalanceDeltas ==
    \A caller \in Accounts, to \in Accounts, id \in Ids, value \in Balances :
       \A r \in {transfer(Ledger, caller, to, id, value),
                 transfer_from(Ledger, caller, to, id, value)} :
          Moves(r) =>
             LET owner == unwrap(owner_of(Ledger, id))
             IN  /\ to # owner
                 /\ balance_of(r.st, to, Some(id)) = balance_of(Ledger, to, Some(id)) + 1
                 /\ balance_of(r.st, owner, Some(id))
                      = balance_of(Ledger, owner, Some(id)) - value

\* A transfer of value 2 or more has credited its destination with 1.
C16_Witness ==
    /\ call.op \in {"transfer", "transfer_from"}
    /\ Transferred
    /\ result.events[1].value > 1
    /\ balance_of(Ledger, unwrap(result.events[1].to), Some(result.events[1].id)) = 1

\* C17: transfer_from resolves the allowance before the checked subtraction of
\* the source balance: for caller # owner, to # owner and value > 0, when the
\* finite allowance stored at (owner, caller, Some(id)) is less than value the
\* call fails with NotApproved, even if value also exceeds the owner's per-id
\* balance.
C17_AllowanceBeforeBalance ==
    \A caller \in Accounts, to \in Accounts, id \in Ids, value \in Balances :
       \A owner \in Accounts \ {caller, to} :
          (/\ owner_of(Ledger, id) = Some(owner)
           /\ value > 0
           /\ <<owner, caller, Some(id)>> \in DOMAIN operator_approvals
           /\ operator_approvals[<<owner, caller, Some(id)>>] < value)
          => transfer_from(Ledger, caller, to, id, value).res = Err("NotApproved")

\* C18: in transfer_from with caller # owner, an entry stored at (owner,
\* caller, Some(id)), 0 included, takes precedence over a blanket approval at
\* (owner, caller, None): the allowance step rejects with NotApproved when the
\* entry is less than value and debits the entry otherwise, leaving the blanket
\* entry alone, and a call that reaches the step ends accordingly; the blanket
\* approval is used only when no per-id entry exists.
C18_FiniteBeforeBlanket ==
    \A caller \in Accounts, to \in Accounts, id \in Ids, value \in Balances :
       \A owner \in Accounts \ {caller, to} :
          (/\ owner_of(Ledger, id) = Some(owner)
           /\ value > 0
           /\ <<owner, caller, None>> \in DOMAIN operator_approvals)
          => LET finite == Get(operator_approvals, <<owner, caller, Some(id)>>)
                 h == handle_transfer_allowance_internal(Ledger, owner, caller, id, value)
                 r == transfer_from(Ledger, caller, to, id, value)
                 reached == balance_of(Ledger, owner, Some(id)) >= value
             IN  /\ finite = None =>
                      /\ allowance_value_wrapped(Ledger, owner, caller, id) = Infinite
                      /\ h = Return(Ok(<<>>), Ledger)
                      /\ reached => Moves(r)
                 /\ finite # None =>
                      /\ allowance_value_wrapped(Ledger, owner, caller, id)
                           = Finite(unwrap(finite))
                      /\ unwrap(finite) < value =>
                            /\ h = Return(Err("NotApproved"), Ledger)
                            /\ reached => r.res = Err("NotApproved")
                      /\ unwrap(finite) >= value =>
                            /\ h.res = Ok(<<>>)
                            /\ h.st.operator_approvals =
                                  Insert(operator_approvals, <<owner, caller, Some(id)>>,
                                         unwrap(finite) - value)
                            /\ reached =>
                                  /\ Moves(r)
                                  /\ r.st.operator_approvals = h.st.operator_approvals

\* A delegate holding the blanket approval has been refused because the per-id
\* entry, which is zero, is less than the value asked for.
C18_Witness ==
    /\ call.op = "transfer_from"
    /\ result = Err("NotApproved")
    /\ call.owner # None
    /\ call.owner # Some(call.caller)
    /\ Get(operator_approvals, <<unwrap(call.owner), call.caller, None>>) = Some(BalanceMAX)
    /\ \E i \in Ids :
          /\ owner_of(Ledger, i) = call.owner
          /\ Get(operator_approvals, <<unwrap(call.owner), call.caller, Some(i)>>) = Some(0)

\* C19: transfer never changes operator_approvals; transfer_from writes no new
\* key and changes at most the key (owner, caller, Some(id)), only when that
\* key is stored and caller # owner; a successful transfer_from by the owner,
\* or with only a blanket approval, or with no allowance, leaves every
\* allowance unchanged.
C19_AllowanceFrame ==
    \A caller \in Accounts, to \in Accounts, id \in Ids, value \in Balances :
       LET t == transfer(Ledger, caller, to, id, value)
           r == transfer_from(Ledger, caller, to, id, value)
           owner == owner_of(Ledger, id)
       IN  /\ t.st.operator_approvals = operator_approvals
           /\ DOMAIN r.st.operator_approvals = DOMAIN operator_approvals
           /\ \A k \in DOMAIN operator_approvals :
                 r.st.operator_approvals[k] # operator_approvals[k] =>
                    /\ owner # None
                    /\ owner # Some(caller)
                    /\ k = <<unwrap(owner), caller, Some(id)>>
           /\ (/\ r.res.kind = "Ok"
               /\ owner # None
               /\ \/ owner = Some(caller)
                  \/ <<unwrap(owner), caller, Some(id)>> \notin DOMAIN operator_approvals)
              => r.st.operator_approvals = operator_approvals

\* A delegate has moved an id on a blanket approval alone, and the blanket
\* entry is the only allowance stored, still unlimited.
C19_Witness ==
    /\ call.op = "transfer_from"
    /\ Transferred
    /\ call.owner # None
    /\ call.owner # Some(call.caller)
    /\ DOMAIN operator_approvals = {<<unwrap(call.owner), call.caller, None>>}
    /\ operator_approvals[<<unwrap(call.owner), call.caller, None>>] = BalanceMAX

\* C20: the token-type count of an account changes only on a successful
\* state-changing transfer or transfer_from, where the source owner's count is
\* decreased by one, floored at zero, exactly when the source's new per-id
\* balance is zero; in every other case, and for every other account, the
\* count is unchanged, so no count ever increases.
C20_TokenCountFrame ==
    /\ \A a \in Accounts, owner \in Accounts, operator \in Accounts,
          id \in OptionalIds, value \in Balances :
          balance_of(approve(Ledger, owner, operator, id, value).st, a, None)
             = balance_of(Ledger, a, None)
    /\ \A a \in Accounts, caller \in Accounts, to \in Accounts,
          id \in Ids, value \in Balances :
          \A r \in {transfer(Ledger, caller, to, id, value),
                    transfer_from(Ledger, caller, to, id, value)} :
             balance_of(r.st, a, None) =
                IF /\ Moves(r)
                   /\ owner_of(Ledger, id) = Some(a)
                   /\ balance_of(r.st, a, Some(id)) = 0
                THEN saturating_sub(balance_of(Ledger, a, None), 1)
                ELSE balance_of(Ledger, a, None)

\* C21: under approve, transfer and transfer_from an id that has an owner keeps
\* some owner, an id without an owner never gets one, and owner_of(id) changes
\* only in a successful transfer or transfer_from of that id with to # owner
\* and value > 0, after which it equals to; approve, no-op calls and failed
\* calls never change it.
C21_OwnershipStateMachine ==
    /\ \A owner \in Accounts, operator \in Accounts, id \in OptionalIds, value \in Balances :
          approve(Ledger, owner, operator, id, value).st.token_owner = token_owner
    /\ \A caller \in Accounts, to \in Accounts, id \in Ids, value \in Balances :
          \A r \in {transfer(Ledger, caller, to, id, value),
                    transfer_from(Ledger, caller, to, id, value)} :
             /\ DOMAIN r.st.token_owner = DOMAIN token_owner
             /\ r.st.token_owner # token_owner =>
                   /\ Moves(r)
                   /\ \A i \in Ids \ {id} : owner_of(r.st, i) = owner_of(Ledger, i)
             /\ Moves(r) =>
                   /\ owner_of(Ledger, id) \notin {None, Some(to)}
                   /\ value > 0
                   /\ owner_of(r.st, id) = Some(to)

\* An id has passed from its owner to another account, while the id that was
\* never issued has no owner and an allowance granted earlier is on record.
C21_Witness ==
    /\ Transferred
    /\ call.owner # None
    /\ call.owner # result.events[1].to
    /\ owner_of(Ledger, result.events[1].id) = result.events[1].to
    /\ \E i \in Ids \ IssuedIds : owner_of(Ledger, i) = None
    /\ operator_approvals # EmptyMapping

\* C22: when the caller is the current owner of id, transfer_from and transfer
\* with the same arguments return the same result and leave the same ledger,
\* for every to and value, and no allowance is debited.
C22_OwnerPathsEquivalent ==
    \A caller \in Accounts, to \in Accounts, id \in Ids, value \in Balances :
       owner_of(Ledger, id) = Some(caller) =>
          LET r == transfer_from(Ledger, caller, to, id, value)
          IN  /\ r = transfer(Ledger, caller, to, id, value)
              /\ r.st.operator_approvals = operator_approvals

\* The owner has moved its own id through transfer_from although it holds no
\* allowance of its own, while allowances it granted are on record.
C22_Witness ==
    /\ call.op = "transfer_from"
    /\ Transferred
    /\ call.owner = Some(call.caller)
    /\ \A k \in DOMAIN operator_approvals : k[2] # call.caller
    /\ \E k \in DOMAIN operator_approvals : k[1] = call.caller

\* The sum over all accounts of the per-id balance of id, counted as the number
\* of pairs (account, n) with 1 <= n <= the account's balance.
BalanceSum(S, id) ==
    Cardinality({p \in Accounts \X (1..BalanceMAX) : p[2] <= balance_of(S, p[1], Some(id))})

\* C23: for every id the sum over all accounts of the per-id balance never
\* increases; each successful state-changing transfer or transfer_from of value
\* v changes the sum of the id moved by exactly 1 - v; total_supply(Some(id))
\* and total_supply(None) are never changed by approve, transfer or
\* transfer_from.
C23_BalanceSum ==
    /\ \A owner \in Accounts, operator \in Accounts, id \in OptionalIds, value \in Balances :
          LET r == approve(Ledger, owner, operator, id, value)
          IN  /\ r.st.owned_serials_count = owned_serials_count
              /\ r.st.total_supply_by_id = total_supply_by_id
              /\ r.st.total_token_count = total_token_count
    /\ \A caller \in Accounts, to \in Accounts, id \in Ids, value \in Balances :
          \A r \in {transfer(Ledger, caller, to, id, value),
                    transfer_from(Ledger, caller, to, id, value)} :
             /\ r.st.owned_serials_count # owned_serials_count =>
                   \A i \in Ids :
                      /\ BalanceSum(r.st, i) <= BalanceSum(Ledger, i)
                      /\ i # id => BalanceSum(r.st, i) = BalanceSum(Ledger, i)
             /\ Moves(r) => BalanceSum(r.st, id) = BalanceSum(Ledger, id) + 1 - value
             /\ r.st.total_supply_by_id = total_supply_by_id
             /\ r.st.total_token_count = total_token_count

\* A transfer of value 2 has left the balances of its id summing to less than
\* the id's total supply, which is what it was.
C23_Witness ==
    /\ Transferred
    /\ result.events[1].value = 2
    /\ BalanceSum(Ledger, result.events[1].id) = 1
    /\ total_supply(Ledger, Some(result.events[1].id)) = 2

\* C24: the per-id balance of an account that is not the recorded owner of the
\* id is never decreased by approve, transfer or transfer_from; an account
\* that holds a balance of an id it is not the owner of cannot move it with
\* transfer: for to # owner and value > 0 the call fails with NotApproved and
\* changes nothing.
C24_OnlyOwnerDebited ==
    /\ \A owner \in Accounts, operator \in Accounts, id \in OptionalIds, value \in Balances :
          approve(Ledger, owner, operator, id, value).st.owned_serials_count
             = owned_serials_count
    /\ \A caller \in Accounts, to \in Accounts, id \in Ids, value \in Balances :
          \A r \in {transfer(Ledger, caller, to, id, value),
                    transfer_from(Ledger, caller, to, id, value)} :
             r.st.owned_serials_count # owned_serials_count =>
                \A a \in Accounts, i \in Ids :
                   owner_of(Ledger, i) # Some(a) =>
                      balance_of(r.st, a, Some(i)) >= balance_of(Ledger, a, Some(i))
    /\ \A a \in Accounts, to \in Accounts, id \in Ids, value \in Balances :
          (/\ owner_of(Ledger, id) \notin {None, Some(a), Some(to)}
           /\ balance_of(Ledger, a, Some(id)) > 0
           /\ value > 0)
          => transfer(Ledger, a, to, id, value) = Return(Err("NotApproved"), Ledger)

\* After a partial transfer the former owner, still holding a balance of the
\* id, has called transfer and been refused with NotApproved.
C24_Witness ==
    /\ call.op = "transfer"
    /\ result = Err("NotApproved")
    /\ call.owner \notin {None, Some(call.caller)}
    /\ \E i \in Ids :
          /\ owner_of(Ledger, i) = call.owner
          /\ balance_of(Ledger, call.caller, Some(i)) > 0
          /\ balance_of(Ledger, unwrap(call.owner), Some(i)) > 0

====
